---- MODULE Spec2Model ----
(***************************************************************************)
(* Model of src/main.py: one evaluation of the Streamlit page that loads   *)
(* a CPIH inflation CSV and a GDP growth CSV, joins them on year, fits two *)
(* time-series models and renders a forecast chart and table.              *)
(*                                                                         *)
(* A CSV file is a number of columns and a sequence of lines; a line is a  *)
(* year cell and a value cell; a cell is an integer literal ("int"), text  *)
(* or an empty field ("str"), or, inside a data frame, NaN ("nan").        *)
(* The numeric results of the statsmodels fits are not computed: the value *)
(* of step i of a forecast is the uninterpreted value FVal(col, i), and    *)
(* whether a fit raises is a choice of the library (it depends on the      *)
(* orders and on the data), except on an empty series, where it raises.    *)
(***************************************************************************)
EXTENDS Integers, Sequences, FiniteSets, TLC

\* Bounds of the model.
MaxYear == 2
MaxRows == 2
MaxHorizon == 2

\* pd.read_csv(cpih_file, skiprows=6)
SkipRows == 6

VARIABLES cpih_file, gdp_file, pc, exc, trace, df_cpih, df_gdp, df, n_years,
          gdp_forecast, forecast, conf_int, forecast_years, forecast_df,
          rendered

vars == <<cpih_file, gdp_file, pc, exc, trace, df_cpih, df_gdp, df, n_years,
          gdp_forecast, forecast, conf_int, forecast_years, forecast_df,
          rendered>>

----------------------------------------------------------------------------
\* Cells and input files.

Text == [kind |-> "str", n |-> 0]
NaN == [kind |-> "nan", n |-> 0]
Num(k) == [kind |-> "int", n |-> k]
IsNum(c) == c.kind = "int"

Years == 1..MaxYear

TextLine == [year |-> Text, val |-> Text]

\* The shapes a line of an uploaded file takes: a line of text (a title, a
\* footnote), a year with an unparseable value, a year with a value.
LineShapes ==
    {[year |-> Text, ok |-> FALSE], [year |-> Num(1), ok |-> FALSE]}
        \cup {[year |-> Num(y), ok |-> TRUE] : y \in Years}

\* The line after the skipped ones: column titles, or (no title line in the
\* file) already a line of data.
HeaderShapes == {[year |-> Text, ok |-> FALSE], [year |-> Num(1), ok |-> TRUE]}

DataShapes == UNION {[1..k -> LineShapes] : k \in 0..MaxRows}

BodyShapes == {<<>>} \cup {<<h>> \o d : h \in HeaderShapes, d \in DataShapes}

\* The value on line `first + i - 1` of a file is that line number, so that
\* every value of a file is told from the others.
MkLines(shape, first) ==
    [i \in 1..Len(shape) |->
        [year |-> shape[i].year,
         val |-> IF shape[i].ok THEN Num(first + i - 1) ELSE Text]]

Preamble == [i \in 1..SkipRows |-> TextLine]

NoFile == [ncols |-> 0, lines |-> <<>>]

CpihFiles ==
    {[ncols |-> 2, lines |-> Preamble \o MkLines(b, SkipRows + 1)] : b \in BodyShapes}
        \cup {[ncols |-> 3, lines |-> Preamble \o <<TextLine, [year |-> Num(1), val |-> Num(8)]>>]}

GdpFiles ==
    {[ncols |-> 2, lines |-> MkLines(b, 1)] : b \in BodyShapes}
        \cup {[ncols |-> 3, lines |-> <<TextLine, [year |-> Num(1), val |-> Num(2)]>>]}

Uploaded(f) == f # NoFile

----------------------------------------------------------------------------
\* pandas operations, as main.py uses them.

\* read_csv called with header=None: the line after the skipped ones is a row.
ReadCsvNoHeader(file, k) == SubSeq(file.lines, k + 1, Len(file.lines))

\* pd.read_csv(file, skiprows=k), header=0 by default: k lines are skipped,
\* the next line names the columns, the rest are the rows. With no line left
\* for the header it raises EmptyDataError.
ReadCsvOk(file, k) == Len(file.lines) > k
ReadCsv(file, k) == SubSeq(file.lines, k + 2, Len(file.lines))

\* df.columns = ['Year', <name>] raises ValueError unless df has 2 columns.
SetColumnsOk(file) == file.ncols = 2

\* df[pd.to_numeric(df['Year'], errors='coerce').notna()]
YearFilter(rows) == SelectSeq(rows, LAMBDA r : IsNum(r.year))

\* df['Year'].astype(int) raises ValueError on a year that is no integer
\* literal (and IntCastingNaNError on an empty one).
AsTypeIntOk(rows) == \A i \in 1..Len(rows) : IsNum(rows[i].year)

\* pd.to_numeric(df[<value column>], errors='coerce')
ToNumeric(rows) ==
    [i \in 1..Len(rows) |->
        [year |-> rows[i].year,
         val |-> IF IsNum(rows[i].val) THEN rows[i].val ELSE NaN]]

\* df.dropna()
DropNa(rows) == SelectSeq(rows, LAMBDA r : r.year # NaN /\ r.val # NaN)

\* df.set_index('Year')
SetIndex(rows) == [i \in 1..Len(rows) |-> [Year |-> rows[i].year.n, val |-> rows[i].val]]

RECURSIVE InsertSorted(_, _)
InsertSorted(row, s) ==
    IF s = <<>> THEN <<row>>
    ELSE IF s[Len(s)].Year <= row.Year THEN Append(s, row)
    ELSE Append(InsertSorted(row, SubSeq(s, 1, Len(s) - 1)), s[Len(s)])

\* df.sort_index(): ascending by year, rows of one year kept in their order.
RECURSIVE SortIndex(_)
SortIndex(rows) ==
    IF rows = <<>> THEN <<>>
    ELSE InsertSorted(rows[Len(rows)], SortIndex(SubSeq(rows, 1, Len(rows) - 1)))

RECURSIVE PairWith(_, _)
PairWith(l, rs) ==
    IF rs = <<>> THEN <<>>
    ELSE <<[Year |-> l.Year, CPIH |-> l.val, GDP_Growth |-> rs[1].val]>>
             \o PairWith(l, Tail(rs))

\* join(how='left'): a left row without a right row of its year is kept, with NaN.
RECURSIVE LeftJoin(_, _)
LeftJoin(left, right) ==
    IF left = <<>> THEN <<>>
    ELSE (IF \E i \in 1..Len(right) : right[i].Year = left[1].Year
          THEN PairWith(left[1], SelectSeq(right, LAMBDA r : r.Year = left[1].Year))
          ELSE <<[Year |-> left[1].Year, CPIH |-> left[1].val, GDP_Growth |-> NaN]>>)
             \o LeftJoin(Tail(left), right)

\* df_cpih.join(df_gdp, how='inner'): every pair of a left and a right row of
\* the same year, in the order of the left frame.
RECURSIVE InnerJoin(_, _)
InnerJoin(left, right) ==
    IF left = <<>> THEN <<>>
    ELSE PairWith(left[1], SelectSeq(right, LAMBDA r : r.Year = left[1].Year))
             \o InnerJoin(Tail(left), right)

\* Lines 17-22: the CPIH frame, once read_csv and the renaming have succeeded.
LoadCpihFrame(file) ==
    SortIndex(SetIndex(DropNa(ToNumeric(YearFilter(ReadCsv(file, SkipRows))))))

\* Lines 25-29: the GDP frame, once read_csv, the renaming and astype(int)
\* have succeeded.
LoadGdpFrame(file) == SortIndex(SetIndex(DropNa(ToNumeric(ReadCsv(file, 0)))))

----------------------------------------------------------------------------
\* statsmodels results.

\* The value of step i of a forecast: column col of the results.
FVal(col, i) == [col |-> col, step |-> i]
NaNF == [col |-> "nan", step |-> 0]

\* The index of a forecast of `steps` steps after nobs observations. The
\* frame's index is an integer index of years, which statsmodels does not
\* support unless it is 0..nobs-1; either way the results are labelled with
\* the integers beginning at nobs.
ForecastIndex(nobs, steps) == [i \in 1..steps |-> nobs + i - 1]

\* gdp_fit.forecast(steps) / forecast_res.predicted_mean: a Series.
ForecastSeries(col, nobs, steps) ==
    [i \in 1..steps |-> [idx |-> ForecastIndex(nobs, steps)[i], v |-> FVal(col, i)]]

\* forecast_res.conf_int(): a frame of a lower and an upper column.
ConfInt(nobs, steps) ==
    [i \in 1..steps |->
        [idx |-> ForecastIndex(nobs, steps)[i],
         lower |-> FVal("lower", i), upper |-> FVal("upper", i)]]

\* conf_int.iloc[:, 0] and conf_int.iloc[:, 1]
ILocCol(ci, c) ==
    [i \in 1..Len(ci) |-> [idx |-> ci[i].idx, v |-> IF c = 0 THEN ci[i].lower ELSE ci[i].upper]]

\* range(df.index[-1], df.index[-1] + n_years): the range begun a year early.
ForecastYearsFromLast(frame, n) == [i \in 1..n |-> frame[Len(frame)].Year + i - 1]

\* Line 63: list(range(df.index[-1] + 1, df.index[-1] + 1 + n_years))
ForecastYears(frame, n) == [i \in 1..n |-> frame[Len(frame)].Year + i]

\* A Series given as a column of pd.DataFrame({...}, index=labels) is
\* reindexed to the labels: a label the Series does not have gives NaN.
Reindex(series, label) ==
    IF \E i \in 1..Len(series) : series[i].idx = label
    THEN series[CHOOSE i \in 1..Len(series) : series[i].idx = label].v
    ELSE NaNF

\* Lines 80-84: forecast_df
MakeForecastDf(fc, ci, years) ==
    [j \in 1..Len(years) |->
        [Year |-> years[j],
         Forecast |-> Reindex(fc, years[j]),
         Lower |-> Reindex(ILocCol(ci, 0), years[j]),
         Upper |-> Reindex(ILocCol(ci, 1), years[j])]]

----------------------------------------------------------------------------
\* The run. pc is the next block of main.py to execute; trace is the blocks
\* executed so far; exc is the block whose exception is being handled or was
\* handled ("none": no exception); rendered is the elements written to the
\* page, in order.

Init ==
    /\ cpih_file \in CpihFiles \cup {NoFile}
    /\ gdp_file \in GdpFiles \cup {NoFile}
    /\ pc = "start"
    /\ exc = "none"
    /\ trace = <<>>
    /\ df_cpih = <<>>
    /\ df_gdp = <<>>
    /\ df = <<>>
    /\ n_years = 0
    /\ gdp_forecast = <<>>
    /\ forecast = <<>>
    /\ conf_int = <<>>
    /\ forecast_years = <<>>
    /\ forecast_df = <<>>
    /\ rendered = <<>>

\* The block after block b.
Follow(b) ==
    CASE b = "load_cpih" -> "load_gdp"
      [] b = "load_gdp" -> "merge"
      [] b = "fit_gdp" -> "fit_cpih"
      [] b = "fit_cpih" -> "plot"
      [] OTHER -> "done"

\* The exception swallowed where it is raised (a try/except around the block
\* alone): the run carries on with the next block.
RaiseAndCarryOn(at) ==
    /\ pc' = Follow(at)
    /\ exc' = at

\* An exception raised in block `at` inside the try of line 15: control goes
\* to the except clause of line 87.
Raise(at) ==
    /\ pc' = "except"
    /\ exc' = at

Goto(next) ==
    /\ pc' = next
    /\ exc' = exc

\* Line 14: if cpih_file and gdp_file
Gate ==
    /\ pc = "start"
    /\ trace' = Append(trace, "start")
    /\ Goto(IF Uploaded(cpih_file) /\ Uploaded(gdp_file) THEN "load_cpih" ELSE "done")
    /\ UNCHANGED <<cpih_file, gdp_file, df_cpih, df_gdp, df, n_years, gdp_forecast,
                   forecast, conf_int, forecast_years, forecast_df, rendered>>

\* Lines 17-22
LoadCPIH ==
    /\ pc = "load_cpih"
    /\ trace' = Append(trace, "load_cpih")
    /\ IF ReadCsvOk(cpih_file, SkipRows) /\ SetColumnsOk(cpih_file)
          /\ AsTypeIntOk(YearFilter(ReadCsv(cpih_file, SkipRows)))
       THEN /\ df_cpih' = LoadCpihFrame(cpih_file)
            /\ Goto("load_gdp")
       ELSE /\ Raise("load_cpih")
            /\ UNCHANGED df_cpih
    /\ UNCHANGED <<cpih_file, gdp_file, df_gdp, df, n_years, gdp_forecast,
                   forecast, conf_int, forecast_years, forecast_df, rendered>>

\* Lines 25-29
LoadGDP ==
    /\ pc = "load_gdp"
    /\ trace' = Append(trace, "load_gdp")
    /\ IF ReadCsvOk(gdp_file, 0) /\ SetColumnsOk(gdp_file)
          /\ AsTypeIntOk(ReadCsv(gdp_file, 0))
       THEN /\ df_gdp' = LoadGdpFrame(gdp_file)
            /\ Goto("merge")
       ELSE /\ Raise("load_gdp")
            /\ UNCHANGED df_gdp
    /\ UNCHANGED <<cpih_file, gdp_file, df_cpih, df, n_years, gdp_forecast,
                   forecast, conf_int, forecast_years, forecast_df, rendered>>

\* Line 32
Merge ==
    /\ pc = "merge"
    /\ trace' = Append(trace, "merge")
    /\ df' = InnerJoin(df_cpih, df_gdp)
    /\ Goto("historical")
    /\ UNCHANGED <<cpih_file, gdp_file, df_cpih, df_gdp, n_years, gdp_forecast,
                   forecast, conf_int, forecast_years, forecast_df, rendered>>

\* Lines 34-35: st.subheader("Historical Data"); st.line_chart(df)
RenderHistorical ==
    /\ pc = "historical"
    /\ trace' = Append(trace, "historical")
    /\ rendered' = rendered \o <<"subheader", "line_chart">>
    /\ Goto("widgets")
    /\ UNCHANGED <<cpih_file, gdp_file, df_cpih, df_gdp, df, n_years, gdp_forecast,
                   forecast, conf_int, forecast_years, forecast_df>>

\* Lines 38-48: the slider's value (1..10) and the six orders. The orders only
\* reach the fits, whose outcome is the library's.
Widgets ==
    /\ pc = "widgets"
    /\ trace' = Append(trace, "widgets")
    /\ \E n \in 1..MaxHorizon : n_years' = n
    /\ Goto("fit_gdp")
    /\ UNCHANGED <<cpih_file, gdp_file, df_cpih, df_gdp, df, gdp_forecast,
                   forecast, conf_int, forecast_years, forecast_df, rendered>>

\* Lines 50-54: ARIMA(df['GDP_Growth'], order).fit().forecast(steps=n_years)
FitGDP ==
    /\ pc = "fit_gdp"
    /\ trace' = Append(trace, "fit_gdp")
    /\ \E fits \in (IF df = <<>> THEN {FALSE} ELSE BOOLEAN) :
          IF fits
          THEN /\ gdp_forecast' = ForecastSeries("gdp", Len(df), n_years)
               /\ Goto("fit_cpih")
          ELSE /\ Raise("fit_gdp")
               /\ UNCHANGED gdp_forecast
    /\ UNCHANGED <<cpih_file, gdp_file, df_cpih, df_gdp, df, n_years,
                   forecast, conf_int, forecast_years, forecast_df, rendered>>

\* Lines 56-63: SARIMAX(...).fit(), get_forecast(steps=n_years, exog=future_exog),
\* predicted_mean, conf_int(), forecast_years. get_forecast raises unless the
\* future exog has one row per step; df.index[-1] raises on an empty frame.
FitCPIH ==
    /\ pc = "fit_cpih"
    /\ trace' = Append(trace, "fit_cpih")
    /\ \E fits \in (IF df = <<>> \/ Len(gdp_forecast) # n_years THEN {FALSE} ELSE BOOLEAN) :
          IF fits
          THEN /\ forecast' = ForecastSeries("mean", Len(df), n_years)
               /\ conf_int' = ConfInt(Len(df), n_years)
               /\ forecast_years' = ForecastYears(df, n_years)
               /\ Goto("plot")
          ELSE /\ Raise("fit_cpih")
               /\ UNCHANGED <<forecast, conf_int, forecast_years>>
    /\ UNCHANGED <<cpih_file, gdp_file, df_cpih, df_gdp, df, n_years,
                   gdp_forecast, forecast_df, rendered>>

\* Lines 66-76: st.subheader("CPIH Forecast"); st.pyplot(fig). The plotted
\* vectors are taken by position and have n_years elements each, as
\* forecast_years has.
PlotForecast ==
    /\ pc = "plot"
    /\ trace' = Append(trace, "plot")
    /\ rendered' = rendered \o <<"subheader", "pyplot">>
    /\ Goto("table")
    /\ UNCHANGED <<cpih_file, gdp_file, df_cpih, df_gdp, df, n_years, gdp_forecast,
                   forecast, conf_int, forecast_years, forecast_df>>

\* Lines 79-85: st.subheader("Forecast Table"); forecast_df; st.dataframe(...)
ForecastTable ==
    /\ pc = "table"
    /\ trace' = Append(trace, "table")
    /\ forecast_df' = MakeForecastDf(forecast, conf_int, forecast_years)
    /\ rendered' = rendered \o <<"subheader", "dataframe">>
    /\ Goto("done")
    /\ UNCHANGED <<cpih_file, gdp_file, df_cpih, df_gdp, df, n_years, gdp_forecast,
                   forecast, conf_int, forecast_years>>

\* Lines 87-88: except Exception as e: st.error(f"Error: {e}")
HandleError ==
    /\ pc = "except"
    /\ trace' = Append(trace, "except")
    /\ rendered' = Append(rendered, "error")
    /\ Goto("done")
    /\ UNCHANGED <<cpih_file, gdp_file, df_cpih, df_gdp, df, n_years, gdp_forecast,
                   forecast, conf_int, forecast_years, forecast_df>>

Next ==
    \/ Gate
    \/ LoadCPIH
    \/ LoadGDP
    \/ Merge
    \/ RenderHistorical
    \/ Widgets
    \/ FitGDP
    \/ FitCPIH
    \/ PlotForecast
    \/ ForecastTable
    \/ HandleError

Spec == Init /\ [][Next]_vars

----------------------------------------------------------------------------
\* Vocabulary of the properties.

\* Block b of main.py has been executed in this run.
Ran(b) == \E i \in 1..Len(trace) : trace[i] = b

\* The blocks that completed without raising.
LoadedCpih == Ran("load_cpih") /\ exc # "load_cpih"
LoadedGdp == Ran("load_gdp") /\ exc # "load_gdp"
Merged == Ran("merge")
Forecasted == Ran("fit_cpih") /\ exc # "fit_cpih"
Failed == exc # "none"

IsDataLine(l) == IsNum(l.year) /\ IsNum(l.val)
RowOf(l) == [Year |-> l.year.n, val |-> l.val]

\* The years a source lists with a value, on whatever line of the file.
YearsOf(file) ==
    {file.lines[i].year.n : i \in {j \in 1..Len(file.lines) : IsDataLine(file.lines[j])}}

\* The rows of the data lines of a file from line `first` on.
RowsFrom(file, first) ==
    {RowOf(file.lines[i]) : i \in {j \in first..Len(file.lines) : IsDataLine(file.lines[j])}}

RowSet(frame) == {frame[i] : i \in 1..Len(frame)}
IndexOf(frame) == [i \in 1..Len(frame) |-> frame[i].Year]

SetMin(S) == CHOOSE m \in S : \A x \in S : m <= x
SetMax(S) == CHOOSE m \in S : \A x \in S : x <= m

RECURSIVE Ascending(_)
Ascending(S) == IF S = {} THEN <<>> ELSE <<SetMin(S)>> \o Ascending(S \ {SetMin(S)})

StrictlyIncreasing(s) == \A i \in 1..Len(s) - 1 : s[i] < s[i + 1]

\* No two data lines among lines first..Len of the file give the same year.
DistinctYears(file, first) ==
    \A i, j \in first..Len(file.lines) :
        (i # j /\ IsDataLine(file.lines[i]) /\ IsDataLine(file.lines[j]))
            => file.lines[i].year.n # file.lines[j].year.n

\* A well-formed inflation file: two columns; 6 lines of metadata and a line
\* of column titles; then one line per year, each with a value, and possibly
\* lines of text (footnotes).
WellFormedCpih(file) ==
    /\ file.ncols = 2
    /\ Len(file.lines) > SkipRows
    /\ \A i \in 1..SkipRows + 1 : ~IsNum(file.lines[i].year)
    /\ \A i \in SkipRows + 2..Len(file.lines) :
          IsDataLine(file.lines[i]) \/ ~IsNum(file.lines[i].year)
    /\ DistinctYears(file, 1)

\* A well-formed GDP file: two columns; a line of column titles; then one
\* line per year, each with a value.
WellFormedGdp(file) ==
    /\ file.ncols = 2
    /\ Len(file.lines) > 0
    /\ ~IsNum(file.lines[1].year)
    /\ \A i \in 2..Len(file.lines) : IsDataLine(file.lines[i])
    /\ DistinctYears(file, 1)

Count(s, e) == Cardinality({i \in 1..Len(s) : s[i] = e})

Charts == {"line_chart", "pyplot", "dataframe"}
NoChartOrTable == \A i \in 1..Len(rendered) : rendered[i] \notin Charts

----------------------------------------------------------------------------
\* C1: for two well-formed inputs, the index of the joined frame is exactly
\* the years listed by both sources, ascending, each once.
C1_AlignedIndexIsOverlap ==
    (Merged /\ WellFormedCpih(cpih_file) /\ WellFormedGdp(gdp_file))
        => IndexOf(df) = Ascending(YearsOf(cpih_file) \cap YearsOf(gdp_file))

\* C1 witness: a join of well-formed inputs that keeps a year and leaves out
\* a year only one source lists.
C1_Witness ==
    /\ Merged /\ WellFormedCpih(cpih_file) /\ WellFormedGdp(gdp_file)
    /\ df # <<>>
    /\ YearsOf(cpih_file) \ YearsOf(gdp_file) # {}

\* C2 as claimed: when a stage fails, the page holds the error message and
\* nothing else.
C2_ErrorOnly == (pc = "done" /\ Failed) => rendered = <<"error">>

\* C3 as claimed: on a successful run the table has one row per future year
\* last_year+i, holding step i of the forecast and of its bounds.
C3_TableRowsPairSteps ==
    (pc = "done" /\ Ran("table"))
        => /\ Len(forecast_df) = n_years
           /\ \A i \in 1..Len(forecast_df) :
                 forecast_df[i] = [Year |-> df[Len(df)].Year + i,
                                   Forecast |-> FVal("mean", i),
                                   Lower |-> FVal("lower", i),
                                   Upper |-> FVal("upper", i)]

\* C4 as claimed: in a two-column file that read_csv accepts, lines with a
\* non-numeric year or value do not fail the load of either source, and the
\* frame holds exactly the other lines after the header.
C4_BadRowsDropped ==
    /\ (Ran("load_cpih") /\ ReadCsvOk(cpih_file, SkipRows) /\ SetColumnsOk(cpih_file))
          => /\ exc # "load_cpih"
             /\ RowSet(df_cpih) = RowsFrom(cpih_file, SkipRows + 2)
    /\ (Ran("load_gdp") /\ ReadCsvOk(gdp_file, 0) /\ SetColumnsOk(gdp_file))
          => /\ exc # "load_gdp"
             /\ RowSet(df_gdp) = RowsFrom(gdp_file, 2)

\* C5 as claimed: every data line of the inflation file from the 7th on, and
\* of the GDP file from the 1st on, is a row of the source's frame.
C5_NoDataLineAsHeader ==
    /\ LoadedCpih => RowsFrom(cpih_file, SkipRows + 1) \subseteq RowSet(df_cpih)
    /\ LoadedGdp => RowsFrom(gdp_file, 1) \subseteq RowSet(df_gdp)

\* C5 amended: 6 inflation lines and no GDP line are skipped, and the next
\* line of each file (the 7th, the 1st) is consumed as the column header:
\* a frame that is built holds exactly the data lines from the 8th on
\* (inflation), from the 2nd on (GDP), one row per line.
C5_HeaderLineConsumed ==
    /\ LoadedCpih
          => /\ RowSet(df_cpih) = RowsFrom(cpih_file, SkipRows + 2)
             /\ Len(df_cpih) = Cardinality(RowsFrom(cpih_file, SkipRows + 2))
    /\ LoadedGdp
          => /\ RowSet(df_gdp) = RowsFrom(gdp_file, 2)
             /\ Len(df_gdp) = Cardinality(RowsFrom(gdp_file, 2))

\* C5 witness: both frames built, each from a file whose header position
\* holds a data line and whose later lines give rows.
C5_Witness ==
    /\ LoadedCpih /\ LoadedGdp
    /\ IsDataLine(cpih_file.lines[SkipRows + 1]) /\ IsDataLine(gdp_file.lines[1])
    /\ df_cpih # <<>> /\ df_gdp # <<>>

\* C6: after the inflation forecast, forecast_years is L+1 .. L+N for the
\* largest year L of the joined frame and the horizon N.
C6_ForecastYearsContiguous ==
    Forecasted
        => /\ n_years \in 1..MaxHorizon
           /\ forecast_years =
                 [i \in 1..n_years |-> SetMax({df[k].Year : k \in 1..Len(df)}) + i]
           /\ StrictlyIncreasing(forecast_years)

\* C6 witness: a forecast of two or more years from a frame of several years.
C6_Witness ==
    /\ Forecasted
    /\ n_years >= 2
    /\ Cardinality({df[k].Year : k \in 1..Len(df)}) >= 2

\* C7 as claimed: an empty join fails the run with the error message and
\* neither a chart nor a table.
C7_EmptyJoinNoOutput ==
    (pc = "done" /\ Merged /\ df = <<>>)
        => /\ Failed
           /\ Count(rendered, "error") = 1
           /\ NoChartOrTable

\* C8: a failure of any block ends the try: the only block executed after the
\* failing one is the handler, which writes one error message; no block is
\* executed twice; the run ends.
C8_FailureCaughtOnce ==
    /\ \A i, j \in 1..Len(trace) : i # j => trace[i] # trace[j]
    /\ Count(rendered, "error") = (IF Ran("except") THEN 1 ELSE 0)
    /\ Failed
          => /\ pc \in {"except", "done"}
             /\ Ran(exc)
             /\ \A i \in 1..Len(trace) - 1 :
                   trace[i] = exc => (i + 1 = Len(trace) /\ trace[i + 1] = "except")
             /\ pc = "done" => Ran("except")
    /\ Ran("except") => Failed

\* C8 witness: a finished run whose GDP fit raised on a joined frame of two
\* observations.
C8_Witness ==
    /\ pc = "done"
    /\ exc = "fit_gdp"
    /\ Len(df) = 2
    /\ Count(rendered, "error") = 1

\* The component of the design a block belongs to; 0: none (the gate, the
\* input widgets).
StageRank(b) ==
    CASE b \in {"load_cpih", "load_gdp", "merge"} -> 1
      [] b = "fit_gdp" -> 2
      [] b = "fit_cpih" -> 3
      [] b \in {"historical", "plot", "table", "except"} -> 4
      [] OTHER -> 0

\* C9 as claimed: the components run in the order loader, GDP forecaster,
\* inflation forecaster, presentation, and nothing is rendered before both
\* forecasters have completed or a stage has failed.
C9_LinearNoEarlyOutput ==
    /\ \A i, j \in 1..Len(trace) :
          (i < j /\ StageRank(trace[i]) > 0 /\ StageRank(trace[j]) > 0)
              => StageRank(trace[i]) <= StageRank(trace[j])
    /\ rendered # <<>> => (Forecasted \/ Failed)

\* C10 as claimed: the joined frame's years are strictly increasing, and
\* every row has a numeric inflation value and a numeric GDP value.
C10_JoinedFrameInvariant ==
    Merged
        => /\ StrictlyIncreasing(IndexOf(df))
           /\ \A i \in 1..Len(df) : IsNum(df[i].CPIH) /\ IsNum(df[i].GDP_Growth)

====
